---- MODULE Spec2Model ----
(***************************************************************************)
(* Model of ufw_block_analyzer.py: main loads the Docker network registry  *)
(* once, then run_ufw_monitor tails journalctl, parses every line with     *)
(* parse_ufw_block_line and logs the enriched record.                      *)
(*                                                                         *)
(* Python strings are TLA+ strings (Len, SubSeq and \o act on them).       *)
(* Python dicts are insertion-ordered: a dict is a sequence of [k, v]      *)
(* records with pairwise distinct k.                                       *)
(***************************************************************************)
EXTENDS Integers, Sequences, FiniteSets, TLC

VARIABLES pc, verbose, docker, docker_networks, proc, journal, line,
          stdout, stderr, exitStatus, signal

vars == <<pc, verbose, docker, docker_networks, proc, journal, line,
          stdout, stderr, exitStatus, signal>>

(***************************************************************************)
(* Bounds of the model.                                                    *)
(***************************************************************************)
\* Number of lines the line source delivers before the model stops reading.
MaxLines == 3
\* Number of lines in the output of `docker network ls`.
MaxDockerLines == 2

(***************************************************************************)
(* Strings.                                                                *)
(***************************************************************************)
Char(s, i) == SubSeq(s, i, i)

Min(a, b) == IF a < b THEN a ELSE b

\* s[:n]
Prefix(s, n) == SubSeq(s, 1, Min(n, Len(s)))

\* s[n:]
Suffix(s, n) == SubSeq(s, n + 1, Len(s))

\* str.startswith
StartsWith(s, p) == Len(p) <= Len(s) /\ SubSeq(s, 1, Len(p)) = p

\* the `in` operator on strings
Contains(s, sub) ==
    \E i \in 1..(Len(s) - Len(sub) + 1) : SubSeq(s, i, i + Len(sub) - 1) = sub

\* what \s matches and what str.strip() strips
Whitespace == {" ", "\t", "\n", "\r", "\f"}

UpperLetters == "ABCDEFGHIJKLMNOPQRSTUVWXYZ"
LowerLetters == "abcdefghijklmnopqrstuvwxyz"

\* what [A-Z] matches
Upper == {Char(UpperLetters, i) : i \in 1..Len(UpperLetters)}

LowerChar(c) ==
    IF c \in Upper
    THEN Char(LowerLetters, CHOOSE i \in 1..Len(UpperLetters) : Char(UpperLetters, i) = c)
    ELSE c

RECURSIVE LowerFrom(_, _)
LowerFrom(s, i) ==
    IF i > Len(s) THEN "" ELSE LowerChar(Char(s, i)) \o LowerFrom(s, i + 1)

\* str.lower
Lower(s) == LowerFrom(s, 1)

RECURSIVE LStripFrom(_, _)
LStripFrom(s, i) ==
    IF i <= Len(s) /\ Char(s, i) \in Whitespace
    THEN LStripFrom(s, i + 1)
    ELSE SubSeq(s, i, Len(s))

RECURSIVE RStripTo(_, _)
RStripTo(s, n) ==
    IF n >= 1 /\ Char(s, n) \in Whitespace
    THEN RStripTo(s, n - 1)
    ELSE SubSeq(s, 1, n)

\* str.strip
Strip(s) == LStripFrom(RStripTo(s, Len(s)), 1)

\* index of the first occurrence of sep in s at or after i, Len(s) + 1 if none
RECURSIVE FindFrom(_, _, _)
FindFrom(s, sep, i) ==
    IF i + Len(sep) - 1 > Len(s) THEN Len(s) + 1
    ELSE IF SubSeq(s, i, i + Len(sep) - 1) = sep THEN i
    ELSE FindFrom(s, sep, i + 1)

\* str.split(sep)
RECURSIVE Split(_, _)
Split(s, sep) ==
    LET j == FindFrom(s, sep, 1)
    IN  IF j > Len(s) THEN <<s>>
        ELSE <<SubSeq(s, 1, j - 1)>> \o Split(SubSeq(s, j + Len(sep), Len(s)), sep)

\* str.split(sep, 1)
SplitOnce(s, sep) ==
    LET j == FindFrom(s, sep, 1)
    IN  IF j > Len(s) THEN <<s>>
        ELSE <<SubSeq(s, 1, j - 1), SubSeq(s, j + Len(sep), Len(s))>>

(***************************************************************************)
(* Python values: None or a string, and their truth value.                 *)
(***************************************************************************)
None == [none |-> TRUE, s |-> ""]
Str(s) == [none |-> FALSE, s |-> s]
Truthy(x) == ~x.none /\ x.s # ""

\* a or b
PyOr(a, b) == IF Truthy(a) THEN a ELSE b

(***************************************************************************)
(* Insertion-ordered dicts.                                                *)
(***************************************************************************)
DictKeys(d) == {d[i].k : i \in 1..Len(d)}

DictIndex(d, key) == CHOOSE i \in 1..Len(d) : d[i].k = key

DictValue(d, key) == d[DictIndex(d, key)].v

\* d.get(key): the value, None when the key is absent
DictGet(d, key) == IF key \in DictKeys(d) THEN Str(DictValue(d, key)) ELSE None

\* d.get(key, default)
DictGetDefault(d, key, default) ==
    IF key \in DictKeys(d) THEN Str(DictValue(d, key)) ELSE Str(default)

\* d[key] = value: an existing key keeps its position
DictSet(d, key, value) ==
    IF key \in DictKeys(d)
    THEN [d EXCEPT ![DictIndex(d, key)] = [k |-> key, v |-> value]]
    ELSE Append(d, [k |-> key, v |-> value])

\* d.pop(key, None)
DictPop(d, key) ==
    LET Keep(e) == e.k # key IN SelectSeq(d, Keep)

(***************************************************************************)
(* parse_ufw_block_line.                                                   *)
(***************************************************************************)
Marker == "[UFW BLOCK]"

BridgePrefix == "br-"

\* variant: the test looks for the opening of the marker only
HasMarkerLoose(l) == Contains(l, "[UFW")

\* "[UFW BLOCK]" in line
HasMarker(l) == Contains(l, Marker)

\* end of the run of [A-Z] that starts at i: the first index past it
RECURSIVE UpperRunEnd(_, _)
UpperRunEnd(s, i) ==
    IF i <= Len(s) /\ Char(s, i) \in Upper THEN UpperRunEnd(s, i + 1) ELSE i

\* end of the run of [^\s] that starts at i: the first index past it
RECURSIVE NonSpaceRunEnd(_, _)
NonSpaceRunEnd(s, i) ==
    IF i <= Len(s) /\ Char(s, i) \notin Whitespace THEN NonSpaceRunEnd(s, i + 1) ELSE i

\* re.findall(r"([A-Z]+)=([^\s]*)", s) scanning from index i: the leftmost
\* match at or after i, then the scan resumes where that match ended
RECURSIVE FindallFrom(_, _)
FindallFrom(s, i) ==
    IF i > Len(s) THEN <<>>
    ELSE IF Char(s, i) \in Upper
         THEN LET j == UpperRunEnd(s, i)
              IN  IF j <= Len(s) /\ Char(s, j) = "="
                  THEN LET e == NonSpaceRunEnd(s, j + 1)
                       IN  <<[k |-> SubSeq(s, i, j - 1), v |-> SubSeq(s, j + 1, e - 1)]>>
                           \o FindallFrom(s, e)
                  ELSE FindallFrom(s, i + 1)
         ELSE FindallFrom(s, i + 1)

Findall(s) == FindallFrom(s, 1)

\* for key, value in matches: parsed_data[key.lower()] = value
RECURSIVE ToParsedData(_, _, _)
ToParsedData(matches, i, d) ==
    IF i > Len(matches) THEN d
    ELSE ToParsedData(matches, i + 1, DictSet(d, Lower(matches[i].k), matches[i].v))

\* variant: parsed_data.get("in", parsed_data.get("out", ""))
InterfaceInIfPresent(parsed_data) ==
    DictGetDefault(parsed_data, "in", DictGetDefault(parsed_data, "out", "").s).s

\* parsed_data.get("in") or parsed_data.get("out", "")
Interface(parsed_data) ==
    PyOr(DictGet(parsed_data, "in"), DictGetDefault(parsed_data, "out", "")).s

\* variant: the loop without its break, the last matching entry wins
RECURSIVE LookupLast(_, _, _)
LookupLast(registry, network_id, i) ==
    IF i > Len(registry) THEN 0
    ELSE LET later == LookupLast(registry, network_id, i + 1)
         IN  IF later # 0 THEN later
             ELSE IF StartsWith(network_id, registry[i].k) THEN i
             ELSE 0

\* for net_prefix, net_info in docker_networks.items(): the index of the first
\* entry, at or after i, whose key network_id starts with; 0 when the loop
\* runs to its else branch
RECURSIVE LookupFrom(_, _, _)
LookupFrom(registry, network_id, i) ==
    IF i > Len(registry) THEN 0
    ELSE IF StartsWith(network_id, registry[i].k) THEN i
    ELSE LookupFrom(registry, network_id, i + 1)

\* Match interface to Docker network and add project info
AddDockerInfo(parsed_data, registry) ==
    LET interface == Interface(parsed_data)
    IN  IF StartsWith(interface, BridgePrefix)
        THEN LET network_id == Suffix(interface, Len(BridgePrefix))
                 hit == LookupFrom(registry, network_id, 1)
             IN  IF hit # 0
                 THEN DictSet(DictSet(parsed_data, "DockerProject", registry[hit].v.project),
                              "DockerNetwork", registry[hit].v.name)
                 ELSE DictSet(DictSet(parsed_data, "DockerProject", "unknown"),
                              "DockerNetwork", "unknown")
        ELSE parsed_data

\* variant: the list without "ttl"
keys_to_remove_no_ttl == <<"len", "tos", "prec", "id", "window", "res", "urgp">>

keys_to_remove == <<"len", "tos", "prec", "id", "ttl", "window", "res", "urgp">>

\* for key in keys_to_remove: parsed_data.pop(key, None)
RECURSIVE RemoveKeys(_, _, _)
RemoveKeys(d, keys, i) ==
    IF i > Len(keys) THEN d ELSE RemoveKeys(DictPop(d, keys[i]), keys, i + 1)

\* the part of parse_ufw_block_line that follows the extraction: enrichment
\* with the Docker fields, then removal of the technical fields
Enrich(parsed_data, registry) ==
    RemoveKeys(AddDockerInfo(parsed_data, registry), keys_to_remove, 1)

\* the value parse_ufw_block_line returns: None, or the dict
parse_ufw_block_line(l, registry) ==
    IF ~HasMarker(l) THEN [isNone |-> TRUE, data |-> <<>>]
    ELSE LET matches == Findall(l)
         IN  IF matches = <<>> THEN [isNone |-> TRUE, data |-> <<>>]
             ELSE [isNone |-> FALSE,
                   data |-> Enrich(ToParsedData(matches, 1, <<>>), registry)]

\* what parse_ufw_block_line logs: a warning when the marker is there and no
\* KEY=VALUE pair is
ParseLog(l) ==
    IF HasMarker(l) /\ Findall(l) = <<>>
    THEN <<[level |-> "WARNING", msg |-> "No key=value pairs found in line: " \o Strip(l)]>>
    ELSE <<>>

(***************************************************************************)
(* rtoml.dumps of a dict of strings with bare keys: one `key = "value"`    *)
(* line per item, in the dict's order, the value a TOML basic string.      *)
(***************************************************************************)
TomlEscapeChar(c) ==
    IF c = "\"" THEN "\\\""
    ELSE IF c = "\\" THEN "\\\\"
    ELSE c

RECURSIVE TomlEscapeFrom(_, _)
TomlEscapeFrom(s, i) ==
    IF i > Len(s) THEN "" ELSE TomlEscapeChar(Char(s, i)) \o TomlEscapeFrom(s, i + 1)

RECURSIVE DumpsFrom(_, _)
DumpsFrom(d, i) ==
    IF i > Len(d) THEN ""
    ELSE d[i].k \o " = \"" \o TomlEscapeFrom(d[i].v, 1) \o "\"\n" \o DumpsFrom(d, i + 1)

Dumps(d) == DumpsFrom(d, 1)

(***************************************************************************)
(* get_docker_networks.  The command either cannot be run, exits non-zero, *)
(* or prints lines; a line is blank, is not JSON, is JSON but no object,   *)
(* or is a JSON object (a dict of strings).                                *)
(***************************************************************************)
NetworkIdLen == 12

ComposeProjectLabel == "com.docker.compose.project="

\* for label in labels.split(","): the project of the first label that starts
\* with com.docker.compose.project=, "unknown" when there is none
RECURSIVE ProjectFrom(_, _)
ProjectFrom(labels, i) ==
    IF i > Len(labels) THEN "unknown"
    ELSE IF StartsWith(labels[i], ComposeProjectLabel)
         THEN SplitOnce(labels[i], "=")[2]
         ELSE ProjectFrom(labels, i + 1)

ProjectName(labels) ==
    IF labels = "" THEN "unknown" ELSE ProjectFrom(Split(labels, ","), 1)

\* networks[network_prefix] = {...} for the JSON object of one line
AddNetwork(networks, network) ==
    LET network_id == DictGetDefault(network, "ID", "").s
    IN  DictSet(networks, Prefix(network_id, NetworkIdLen),
                [name    |-> DictGetDefault(network, "Name", "unknown").s,
                 project |-> ProjectName(DictGetDefault(network, "Labels", "").s),
                 id      |-> network_id])

\* the loop over the lines of the output: json.loads raises on a line that
\* is not JSON, network.get raises on a JSON value that is no object
RECURSIVE LoadFrom(_, _, _)
LoadFrom(lines, i, networks) ==
    IF i > Len(lines) THEN [raised |-> FALSE, networks |-> networks]
    ELSE IF lines[i].json = "blank" THEN LoadFrom(lines, i + 1, networks)
    ELSE IF lines[i].json = "object"
         THEN LoadFrom(lines, i + 1, AddNetwork(networks, lines[i].obj))
         ELSE [raised |-> TRUE, networks |-> networks]

\* variant: the except clauses return the networks read so far
OnLoadErrorPartial(networks) == networks

\* what the except clauses return
OnLoadError(networks) == <<>>

\* the registry get_docker_networks returns and what it logs
get_docker_networks(out) ==
    IF out.kind = "nonzero"
    THEN [networks |-> OnLoadError(<<>>),
          log |-> <<[level |-> "ERROR", msg |-> "Failed to get Docker networks: CalledProcessError"]>>]
    ELSE IF out.kind = "missing"
    THEN [networks |-> OnLoadError(<<>>),
          log |-> <<[level |-> "ERROR", msg |-> "Error parsing Docker networks: FileNotFoundError"]>>]
    ELSE LET r == LoadFrom(out.lines, 1, <<>>)
         IN  IF r.raised
             THEN [networks |-> OnLoadError(r.networks),
                   log |-> <<[level |-> "ERROR", msg |-> "Error parsing Docker networks: Exception"]>>]
             ELSE [networks |-> r.networks,
                   log |-> <<[level |-> "INFO",
                              msg |-> "Loaded " \o ToString(Len(r.networks)) \o " Docker networks"]>>]

(***************************************************************************)
(* The inputs of the model.                                                *)
(***************************************************************************)
\* lines `docker network ls --format json` may print
DockerLines ==
    { [json |-> "object",
       obj  |-> << [k |-> "ID", v |-> "abc123def456789a"],
                   [k |-> "Name", v |-> "net1"],
                   [k |-> "Labels",
                    v |-> "com.docker.compose.network=net1,com.docker.compose.project=demo"] >>],
      [json |-> "object", obj |-> << [k |-> "Name", v |-> "host"] >>],
      [json |-> "invalid", obj |-> <<>>],
      [json |-> "blank", obj |-> <<>>] }

SeqsUpTo(S, n) == UNION {[1..m -> S] : m \in 0..n}

\* what running the command may do
DockerOutcomes ==
    { [kind |-> "missing", lines |-> <<>>], [kind |-> "nonzero", lines |-> <<>>] }
    \cup { [kind |-> "ok", lines |-> ls] : ls \in SeqsUpTo(DockerLines, MaxDockerLines) }

\* lines journalctl may deliver, each with its newline
JournalLines ==
    { "Sep 1 00:00:00 host kernel: [UFW BLOCK] IN=br-abc123def456 OUT= SRC=10.0.0.5 DST=10.0.0.1 LEN=60 TTL=64 PROTO=TCP SPT=443 DPT=51000\n",
      "kernel: [UFW BLOCK] IN= OUT=br-abc123def456 SRC=10.0.0.5 ID=7\n",
      "  [UFW BLOCK] IN=eth0 OUT= MAC=aa:bb=CC TTL=64\n",
      "[UFW BLOCK] LEN=60 TTL=64\n",
      "[UFW BLOCK] no pairs, in=br-abc123def456\n",
      "[UFW ALLOW] IN=br-abc123def456 OUT= SRC=10.0.0.5\n",
      "[UFW BLOCK] OUT=br-ffff00000000 SRC=10.0.0.9 SRC=10.0.0.7\n" }

(***************************************************************************)
(* The program.  pc is the place of the single thread:                     *)
(*   "main"          main, about to call get_docker_networks               *)
(*   "monitor_enter" run_ufw_monitor entered, before its try block         *)
(*   "popen"         in the try block, about to start journalctl           *)
(*   "read"          blocked in process.stdout.readline                    *)
(*   "echo"          a line read, about to test it and echo it             *)
(*   "parse"         about to parse the line and log the record            *)
(*   "exited"        the process has exited with exitStatus                *)
(* proc is what the program has done with the journalctl process: "unset"  *)
(* (no local named process), "started", "terminated".  signal is whether   *)
(* an interrupt was delivered.  exitStatus is -1 until the process exits.  *)
(***************************************************************************)
Init ==
    /\ pc = "main"
    /\ verbose \in BOOLEAN
    /\ docker \in DockerOutcomes
    /\ docker_networks = <<>>
    /\ proc = "unset"
    /\ journal = <<>>
    /\ line = ""
    /\ stdout = <<>>
    /\ stderr = <<>>
    /\ exitStatus = -1
    /\ signal = FALSE

Info(m) == [level |-> "INFO", msg |-> m]

Error(m) == [level |-> "ERROR", msg |-> m]

\* main: docker_networks = get_docker_networks(), then run_ufw_monitor is called
LoadNetworks ==
    /\ pc = "main"
    /\ LET r == get_docker_networks(docker)
       IN  /\ docker_networks' = r.networks
           /\ stderr' = stderr \o r.log
    /\ docker' = [kind |-> "consumed", lines |-> <<>>]
    /\ pc' = "monitor_enter"
    /\ UNCHANGED <<verbose, proc, journal, line, stdout, exitStatus, signal>>

\* run_ufw_monitor: the two logger.info calls before the try block
MonitorEnter ==
    /\ pc = "monitor_enter"
    /\ stderr' = stderr \o << Info("Starting UFW block analyzer..."),
                              Info("Monitoring journalctl for UFW BLOCK messages...") >>
    /\ pc' = "popen"
    /\ UNCHANGED <<verbose, docker, docker_networks, proc, journal, line, stdout,
                   exitStatus, signal>>

\* subprocess.Popen succeeds
PopenOk ==
    /\ pc = "popen"
    /\ proc' = "started"
    /\ stderr' = Append(stderr, Info("Successfully started journalctl monitoring"))
    /\ pc' = "read"
    /\ UNCHANGED <<verbose, docker, docker_networks, journal, line, stdout,
                   exitStatus, signal>>

\* subprocess.Popen raises: except Exception logs and exits 1
PopenFails ==
    /\ pc = "popen"
    /\ stderr' = Append(stderr, Error("Error running UFW monitor: OSError"))
    /\ pc' = "exited"
    /\ exitStatus' = 1
    /\ UNCHANGED <<verbose, docker, docker_networks, proc, journal, line, stdout, signal>>

\* readline returns a line
ReadLine ==
    /\ pc = "read"
    /\ Len(journal) < MaxLines
    /\ \E l \in JournalLines :
          /\ journal' = Append(journal, l)
          /\ line' = l
    /\ pc' = "echo"
    /\ UNCHANGED <<verbose, docker, docker_networks, proc, stdout, stderr,
                   exitStatus, signal>>

\* readline returns "": iter stops, the for loop ends, run_ufw_monitor and main
\* return, and the process exits with status 0
EndOfStream ==
    /\ pc = "read"
    /\ pc' = "exited"
    /\ exitStatus' = 0
    /\ UNCHANGED <<verbose, docker, docker_networks, proc, journal, line, stdout,
                   stderr, signal>>

\* readline raises: except Exception logs and exits 1
ReadError ==
    /\ pc = "read"
    /\ stderr' = Append(stderr, Error("Error running UFW monitor: OSError"))
    /\ pc' = "exited"
    /\ exitStatus' = 1
    /\ UNCHANGED <<verbose, docker, docker_networks, proc, journal, line, stdout, signal>>

\* if line: if verbose: print(f"Captured line: {line.strip()}")
Echo ==
    /\ pc = "echo"
    /\ IF line # ""
       THEN /\ stdout' = IF verbose
                         THEN Append(stdout, "Captured line: " \o Strip(line) \o "\n")
                         ELSE stdout
            /\ pc' = "parse"
       ELSE /\ stdout' = stdout
            /\ pc' = "read"
    /\ UNCHANGED <<verbose, docker, docker_networks, proc, journal, line, stderr,
                   exitStatus, signal>>

\* if parsed_data: a dict is true when it is not empty
DictTruthy(r) == ~r.isNone /\ r.data # <<>>

\* the log line of a record
RecordHeader == "UFW Block detected:\n"

FormatRecord(data) == Info(RecordHeader \o Dumps(data))

\* parsed_data = parse_ufw_block_line(line.strip(), docker_networks) and the
\* logging of its result
ParseAndLog ==
    /\ pc = "parse"
    /\ LET l == Strip(line)
           parsed_data == parse_ufw_block_line(l, docker_networks)
       IN  stderr' = stderr \o ParseLog(l)
                       \o (IF DictTruthy(parsed_data)
                           THEN <<FormatRecord(parsed_data.data)>>
                           ELSE <<>>)
    /\ pc' = "read"
    /\ UNCHANGED <<verbose, docker, docker_networks, proc, journal, line, stdout,
                   exitStatus, signal>>

\* KeyboardInterrupt raised inside the try block: the handler logs, terminates
\* the process when the local exists, and exits 0
InterruptInTry ==
    /\ pc \in {"popen", "read", "echo", "parse"}
    /\ signal' = TRUE
    /\ stderr' = Append(stderr, Info("Received interrupt signal, stopping monitor..."))
    /\ proc' = IF proc = "started" THEN "terminated" ELSE proc
    /\ pc' = "exited"
    /\ exitStatus' = 0
    /\ UNCHANGED <<verbose, docker, docker_networks, journal, line, stdout>>

\* KeyboardInterrupt raised by the statements of run_ufw_monitor that precede
\* the try block: no handler of run_ufw_monitor runs, the exception leaves
\* main, and the click command aborts with status 1
InterruptBeforeTry ==
    /\ pc = "monitor_enter"
    /\ signal' = TRUE
    /\ pc' = "exited"
    /\ exitStatus' = 1
    /\ UNCHANGED <<verbose, docker, docker_networks, proc, journal, line, stdout, stderr>>

Next ==
    \/ LoadNetworks
    \/ MonitorEnter
    \/ PopenOk
    \/ PopenFails
    \/ ReadLine
    \/ EndOfStream
    \/ ReadError
    \/ Echo
    \/ ParseAndLog
    \/ InterruptInTry
    \/ InterruptBeforeTry

Spec == Init /\ [][Next]_vars

(***************************************************************************)
(* Vocabulary of the properties.                                           *)
(***************************************************************************)
\* the fixed denylist of technical fields, as the specification lists it
Denylist == {"len", "tos", "prec", "id", "ttl", "window", "res", "urgp"}

\* the field set extracted from a line, before enrichment
Fields(l) == ToParsedData(Findall(Strip(l)), 1, <<>>)

\* a line the extraction accepts: the marker and at least one KEY=VALUE pair
Qualifying(l) == Contains(l, Marker) /\ Findall(l) # <<>>

\* the record parse_ufw_block_line returns for the line in hand
Result == parse_ufw_block_line(Strip(line), docker_networks)

IsBridge(interface) == Len(interface) >= 3 /\ SubSeq(interface, 1, 3) = "br-"

IsRecord(entry) == StartsWith(entry.msg, RecordHeader)

\* the records written so far to the log stream
Records(log) == SelectSeq(log, IsRecord)

\* the line in hand has been parsed and its result logged
LineDone == pc = "read" /\ journal # <<>> /\ line = journal[Len(journal)]

\* the last entry of the log stream is the record of the line in hand
RecordLogged ==
    /\ LineDone
    /\ ~Result.isNone
    /\ stderr # <<>>
    /\ stderr[Len(stderr)] = FormatRecord(Result.data)

\* the registry entries, in iteration order, whose key is a prefix of id
Matching(registry, id) == {i \in 1..Len(registry) : StartsWith(id, registry[i].k)}

First(S) == CHOOSE i \in S : \A j \in S : i <= j

\* project and network a bridge interface is attributed to
ExpectedProject(registry, id) ==
    IF Matching(registry, id) = {} THEN "unknown"
    ELSE registry[First(Matching(registry, id))].v.project

ExpectedNetwork(registry, id) ==
    IF Matching(registry, id) = {} THEN "unknown"
    ELSE registry[First(Matching(registry, id))].v.name

\* the enrichment fields of a record, under the keys the code writes
HasDockerFields(d) == {"DockerProject", "DockerNetwork"} \subseteq DictKeys(d)

NoDockerFields(d) == {"DockerProject", "DockerNetwork"} \cap DictKeys(d) = {}

(***************************************************************************)
(* C1.  A line without the marker "[UFW BLOCK]" parses to None, whatever   *)
(* KEY=VALUE pairs it holds and whatever the registry, and the step that   *)
(* handles it writes no record to either channel.                          *)
(***************************************************************************)
C1_NoMarkerNoRecord ==
    [][ (pc = "parse" /\ ~Contains(line, Marker)) =>
            /\ Result.isNone
            /\ Records(stderr') = Records(stderr)
            /\ stdout' = stdout ]_vars

\* a line without the marker that holds KEY=VALUE pairs was handled with a
\* non-empty registry
C1_Witness ==
    /\ LineDone
    /\ ~Contains(line, Marker)
    /\ Findall(line) # <<>>
    /\ docker_networks # <<>>

(***************************************************************************)
(* C2.  For a marker line whose interface is a bridge matching a registry  *)
(* entry, the keys of the record are the lower-cased extracted keys minus  *)
(* the denylist plus dockerproject and dockernetwork, all lower case, with *)
(* the values as captured; the end-to-end line with the registry           *)
(* {abc123def456: {name: net1, project: demo}} yields exactly the nine     *)
(* fields of the example.                                                  *)
(***************************************************************************)
EndToEndLine ==
    "Sep 1 00:00:00 host kernel: [UFW BLOCK] IN=br-abc123def456 OUT= SRC=10.0.0.5 DST=10.0.0.1 LEN=60 TTL=64 PROTO=TCP SPT=443 DPT=51000\n"

EndToEndRecord ==
    { <<"in", "br-abc123def456">>, <<"out", "">>, <<"src", "10.0.0.5">>,
      <<"dst", "10.0.0.1">>, <<"proto", "TCP">>, <<"spt", "443">>, <<"dpt", "51000">>,
      <<"dockerproject", "demo">>, <<"dockernetwork", "net1">> }

Items(d) == {<<d[i].k, d[i].v>> : i \in 1..Len(d)}

C2_LowerCaseKeys ==
    (pc = "parse" /\ Qualifying(line)) =>
        LET matches == Findall(Strip(line))
            fields == Fields(line)
            interface == Interface(fields)
            result == Result
        IN  (IsBridge(interface) /\ Matching(docker_networks, Suffix(interface, 3)) # {})
            => /\ ~result.isNone
               /\ DictKeys(result.data) =
                     ({Lower(matches[i].k) : i \in 1..Len(matches)} \ Denylist)
                     \cup {"dockerproject", "dockernetwork"}
               /\ \A k \in DictKeys(fields) \ Denylist :
                     DictValue(result.data, k) = DictValue(fields, k)
               /\ (line = EndToEndLine /\ Len(docker_networks) = 1
                      /\ docker_networks[1].k = "abc123def456"
                      /\ docker_networks[1].v.name = "net1"
                      /\ docker_networks[1].v.project = "demo")
                  => Items(result.data) = EndToEndRecord

(***************************************************************************)
(* C3.  The project and network fields are in the record exactly when the  *)
(* selected interface starts with "br-"; they are then the project and     *)
(* name of the first registry key, in iteration order, that is a prefix of *)
(* the interface name without "br-", and both "unknown" when there is no   *)
(* such key.                                                               *)
(***************************************************************************)
C3_EnrichmentIffBridge ==
    (pc = "parse" /\ Qualifying(line)) =>
        LET interface == Interface(Fields(line))
            id == Suffix(interface, 3)
            result == Result
        IN  /\ ~result.isNone
            /\ IsBridge(interface) =>
                  /\ HasDockerFields(result.data)
                  /\ DictValue(result.data, "DockerProject")
                        = ExpectedProject(docker_networks, id)
                  /\ DictValue(result.data, "DockerNetwork")
                        = ExpectedNetwork(docker_networks, id)
            /\ ~IsBridge(interface) => NoDockerFields(result.data)

\* the record of a bridge interface that two registry keys are a prefix of
\* has been logged
C3_Witness ==
    /\ RecordLogged
    /\ IsBridge(Interface(Fields(line)))
    /\ Cardinality(Matching(docker_networks, Suffix(Interface(Fields(line)), 3))) = 2
    /\ HasDockerFields(Result.data)

(***************************************************************************)
(* C4, as claimed.  The interface is the value of "in" whenever the key    *)
(* "in" is present, even when empty, else the value of "out" when present, *)
(* else ""; a line with IN= and OUT=br-<id> gets no project and network    *)
(* fields.                                                                 *)
(***************************************************************************)
ClaimedInterface(d) ==
    IF "in" \in DictKeys(d) THEN DictValue(d, "in")
    ELSE IF "out" \in DictKeys(d) THEN DictValue(d, "out")
    ELSE ""

C4_InInterfaceWhenPresent ==
    (pc = "parse" /\ Qualifying(line)) =>
        LET interface == ClaimedInterface(Fields(line))
            result == Result
        IN  /\ IsBridge(interface) => HasDockerFields(result.data)
            /\ ~IsBridge(interface) => NoDockerFields(result.data)

(***************************************************************************)
(* C4, amended.  The interface is the value of "in" when the key is        *)
(* present with a non-empty value, else the value of "out" when that key   *)
(* is present, else ""; a line with IN= and OUT=br-<id> has the interface  *)
(* br-<id> and gets the project and network fields of <id>.                *)
(***************************************************************************)
AmendedInterface(d) ==
    IF "in" \in DictKeys(d) /\ DictValue(d, "in") # "" THEN DictValue(d, "in")
    ELSE IF "out" \in DictKeys(d) THEN DictValue(d, "out")
    ELSE ""

C4_InInterfaceWhenNonEmpty ==
    (pc = "parse" /\ Qualifying(line)) =>
        LET interface == AmendedInterface(Fields(line))
            id == Suffix(interface, 3)
            result == Result
        IN  /\ IsBridge(interface) =>
                  /\ HasDockerFields(result.data)
                  /\ DictValue(result.data, "DockerProject")
                        = ExpectedProject(docker_networks, id)
                  /\ DictValue(result.data, "DockerNetwork")
                        = ExpectedNetwork(docker_networks, id)
            /\ ~IsBridge(interface) => NoDockerFields(result.data)

\* the record of a line with an empty "in" and a bridge "out" has been
\* logged with the fields of a registry entry
C4_Witness ==
    /\ RecordLogged
    /\ "in" \in DictKeys(Fields(line))
    /\ DictValue(Fields(line), "in") = ""
    /\ IsBridge(DictGetDefault(Fields(line), "out", "").s)
    /\ HasDockerFields(Result.data)
    /\ DictValue(Result.data, "DockerProject") = "demo"

(***************************************************************************)
(* C5.  The enriched field set holds none of the denylisted keys, every    *)
(* other extracted key keeps its value, and enriching the result again     *)
(* gives the same field set.                                               *)
(***************************************************************************)
C5_DenylistRemovedIdempotent ==
    (pc = "parse" /\ Qualifying(line)) =>
        LET fields == Fields(line)
            once == Enrich(fields, docker_networks)
        IN  /\ DictKeys(once) \cap Denylist = {}
            /\ \A k \in DictKeys(fields) \ Denylist :
                  k \in DictKeys(once) /\ DictValue(once, k) = DictValue(fields, k)
            /\ Enrich(once, docker_networks) = once
            /\ Result.data = once

\* the record of a bridge line that held denylisted keys has been logged
C5_Witness ==
    /\ RecordLogged
    /\ DictKeys(Fields(line)) \cap Denylist # {}
    /\ DictKeys(Fields(line)) \ Denylist # {}
    /\ HasDockerFields(Result.data)

(***************************************************************************)
(* C6.  The records written are exactly one per qualifying line (marker    *)
(* and at least one KEY=VALUE pair), in the order the lines arrived.       *)
(***************************************************************************)
ExpectedRecords(lines) ==
    LET qualifying == SelectSeq(lines, Qualifying)
    IN  [i \in 1..Len(qualifying) |->
            FormatRecord(parse_ufw_block_line(Strip(qualifying[i]), docker_networks).data)]

C6_RecordPerQualifyingLine ==
    pc = "read" => Records(stderr) = ExpectedRecords(journal)

(***************************************************************************)
(* C7.  When the monitor stops without an interrupt (the line source ends, *)
(* closes or fails), an error is logged and the exit status is not 0.      *)
(***************************************************************************)
C7_SourceFailureExitsNonZero ==
    (pc = "exited" /\ ~signal) =>
        /\ exitStatus # 0
        /\ stderr # <<>>
        /\ stderr[Len(stderr)].level = "ERROR"

(***************************************************************************)
(* C8.  An interrupt delivered at any point of run_ufw_monitor ends the    *)
(* process with status 0, the line source terminated if it was started.    *)
(***************************************************************************)
C8_InterruptExitsZero ==
    signal => (pc = "exited" /\ exitStatus = 0 /\ proc # "started")

(***************************************************************************)
(* C9.  When the enumeration fails (command missing, non-zero exit, or a   *)
(* line that is not JSON), the registry is wholly empty, the process does  *)
(* not exit and run_ufw_monitor is entered; the registry never changes     *)
(* afterwards, and with it empty every bridge-interface event is logged    *)
(* with project and network "unknown".                                     *)
(***************************************************************************)
LoadFails(out) ==
    \/ out.kind \in {"missing", "nonzero"}
    \/ \E i \in 1..Len(out.lines) : out.lines[i].json = "invalid"

C9_LoadFailureRecoverable ==
    /\ [][ (pc = "main" /\ LoadFails(docker)) =>
              (docker_networks' = <<>> /\ pc' = "monitor_enter" /\ exitStatus' = -1) ]_vars
    /\ [][ pc # "main" => docker_networks' = docker_networks ]_vars
    /\ [][ (/\ pc = "parse"
            /\ pc' = "read"
            /\ docker_networks = <<>>
            /\ Qualifying(line)
            /\ IsBridge(Interface(Fields(line)))) =>
              LET result == Result
              IN  /\ HasDockerFields(result.data)
                  /\ DictValue(result.data, "DockerProject") = "unknown"
                  /\ DictValue(result.data, "DockerNetwork") = "unknown"
                  /\ stderr' = Append(stderr, FormatRecord(result.data)) ]_vars

\* the load failed on a line that is not JSON, the monitor ran, and the
\* record of a bridge interface has been logged with "unknown"
C9_Witness ==
    /\ RecordLogged
    /\ stderr[1] = Error("Error parsing Docker networks: Exception")
    /\ docker_networks = <<>>
    /\ IsBridge(Interface(Fields(line)))
    /\ DictValue(Result.data, "DockerProject") = "unknown"

(***************************************************************************)
(* C10.  Everything written to standard output is an enriched record, and  *)
(* no enriched record is written to the log stream.                        *)
(***************************************************************************)
C10_ChannelSeparation ==
    /\ \A i \in 1..Len(stdout) : StartsWith(stdout[i], RecordHeader)
    /\ \A i \in 1..Len(stderr) : ~IsRecord(stderr[i])

====
